---- MODULE Spec2Model ----
(***************************************************************************)
(* Model of the pi74HC595 driver (src/pi74HC595/pi74HC595.py): the driver  *)
(* object's fields, the calls it makes on RPi.GPIO, and the 74HC595 chain  *)
(* that those calls drive.                                                 *)
(*                                                                         *)
(* Python values are tagged records [ty, v]: the code's behaviour depends  *)
(* on isinstance() and on == between values of different types, so the     *)
(* type of every argument and of every stored bit is kept.                 *)
(*   int   : v is the integer                                              *)
(*   bool  : v is 1 (True) or 0 (False)                                    *)
(*   float : v is the value in tenths (55 is 5.5)                          *)
(*   str   : v is the string                                               *)
(*   list  : v is the sequence of elements                                 *)
(*   NoneType : v is 0                                                     *)
(*   gpio  : v names a constant of RPi.GPIO (OUT, HIGH, LOW)               *)
(***************************************************************************)
EXTENDS Integers, Sequences, FiniteSets, TLC

\* ------------------------------------------------------------------ bounds
\* Longest list drawn by enumeration as an argument of set_by_list.
MaxLen == 2
\* Number of public calls made on a constructed driver in one behaviour.
MaxCalls == 2

\* --------------------------------------------------------- Python values
PyInt(n) == [ty |-> "int", v |-> n]
PyBool(b) == [ty |-> "bool", v |-> IF b THEN 1 ELSE 0]
PyFloat(tenths) == [ty |-> "float", v |-> tenths]
PyStr(s) == [ty |-> "str", v |-> s]
PyList(s) == [ty |-> "list", v |-> s]
PyNone == [ty |-> "NoneType", v |-> 0]

\* isinstance(x, int): bool is a subclass of int.
IsInt(x) == x.ty \in {"int", "bool"}
\* isinstance(x, bool)
IsBool(x) == x.ty = "bool"
\* isinstance(x, list)
IsList(x) == x.ty = "list"
\* The types that order against an int with < and >; the others raise TypeError.
IsNumber(x) == x.ty \in {"int", "bool", "float"}
\* The numeric value of a number, in tenths.
Tenths(x) == IF x.ty = "float" THEN x.v ELSE 10 * x.v
\* x < n and x > n for a number x and an int literal n.
PyLess(x, n) == Tenths(x) < 10 * n
PyGreater(x, n) == Tenths(x) > 10 * n
\* x == n for an int literal n (also `x == True` with n = 1, `x == False`
\* with n = 0): numbers compare by value, anything else is unequal.
PyEq(x, n) == IsNumber(x) /\ Tenths(x) = 10 * n

\* RPi.GPIO constants as the driver passes them.
OUT == [ty |-> "gpio", v |-> "OUT"]
HIGH == [ty |-> "gpio", v |-> "HIGH"]
LOW == [ty |-> "gpio", v |-> "LOW"]

\* One call on the RPi.GPIO module (or on a PWM object it returned).
GpioCall(fn, pin, arg) == [fn |-> fn, pin |-> pin, arg |-> arg]

\* ------------------------------------------------------------- state
VARIABLES
  constructed,     \* a driver object exists
  data,            \* self.data (DS)
  parallel,        \* self.parallel (ST_CP)
  serial,          \* self.serial (SH_CP)
  output_enable,   \* self.output_enable (OE)
  pwm_frequency,   \* self.pwm_frequency
  daisy_chain,     \* self.daisy_chain
  current,         \* self.current, the shadow state
  gpio,            \* RPi.GPIO: the pins configured, the last level written to each
  chip,            \* the 74HC595 chain wired to the pins given at construction
  lastCall,        \* the last public call: name, argument, exception raised
  pre,             \* the driver's fields as they were before the last call
  trace,           \* the RPi.GPIO calls made by the last call, in order
  seen,            \* self.current as it was at each of those calls
  calls            \* number of public calls made since construction

fields == <<constructed, data, parallel, serial, output_enable, pwm_frequency,
            daisy_chain, current>>
vars == <<constructed, data, parallel, serial, output_enable, pwm_frequency,
          daisy_chain, current, gpio, chip, lastCall, pre, trace, seen, calls>>

\* get_values(): returns self.current.
get_values == current

\* The fields of the driver and the state of RPi.GPIO, as recorded in pre.
Snapshot == [data |-> data, parallel |-> parallel, serial |-> serial,
             output_enable |-> output_enable, pwm_frequency |-> pwm_frequency,
             daisy_chain |-> daisy_chain, current |-> current, gpio |-> gpio]

\* ------------------------------------------------------ pin protocol
\* list * int: the list repeated n times (empty for n < 1).
RECURSIVE Repeat(_, _)
Repeat(s, n) == IF n < 1 THEN <<>> ELSE s \o Repeat(s, n - 1)

\* [0, 0, 0, 0, 0, 0, 0, 0]
EightZeros == [i \in 1..8 |-> PyInt(0)]

\* _setup_board: the three lines configured as outputs and driven low.
SetupBoard(ds, st, sh) ==
  << GpioCall("setup", ds, OUT), GpioCall("output", ds, LOW),
     GpioCall("setup", st, OUT), GpioCall("output", st, LOW),
     GpioCall("setup", sh, OUT), GpioCall("output", sh, LOW) >>

\* _output: one pulse of the storage (latch) clock.
Output(st) == << GpioCall("output", st, HIGH), GpioCall("output", st, LOW) >>

\* Variant of Tick: the pulse inverted, low then high.
TickInverted(sh) == << GpioCall("output", sh, LOW), GpioCall("output", sh, HIGH) >>

\* _tick: one pulse of the shift clock.
Tick(sh) == << GpioCall("output", sh, HIGH), GpioCall("output", sh, LOW) >>

\* The write of the data line for one bit: only a bit equal to 1 or to 0
\* writes it, any other value leaves the line as it is.
DataWrite(ds, bit) ==
  IF PyEq(bit, 1) THEN << GpioCall("output", ds, HIGH) >>
  ELSE IF PyEq(bit, 0) THEN << GpioCall("output", ds, LOW) >>
  ELSE <<>>

\* Variant of Advance: the bit inserted at the front, the last element deleted.
AdvanceAtFront(cur, bit) == << bit >> \o SubSeq(cur, 1, Len(cur) - 1)

\* Variant of Advance: the bit appended, nothing deleted.
AdvanceNoDelete(cur, bit) == Append(cur, bit)

\* One iteration of the loop of _set_values on the shadow state:
\* append the bit, delete the first element.
Advance(cur, bit) == Tail(Append(cur, bit))

\* The loop of _set_values, iterations lo..hi, on the shadow state. The range
\* is run as its first half and then its second half, which is the loop in
\* order; binding the first half's result (the one element of a set) makes
\* the evaluation finish it before the second half starts, so that the depth
\* of the evaluation stays logarithmic in the number of bits.
RECURSIVE ShiftRange(_, _, _, _)
ShiftRange(cur, values, lo, hi) ==
  IF lo > hi THEN cur
  ELSE IF lo = hi THEN Advance(cur, values[lo])
  ELSE CHOOSE r \in { ShiftRange(first, values, (lo + hi) \div 2 + 1, hi) :
                        first \in { ShiftRange(cur, values, lo, (lo + hi) \div 2) } } : TRUE

\* Variant of ShiftAll: bits beyond the capacity of the shadow state are dropped.
ShiftAllCapped(cur, values) ==
  ShiftRange(cur, values, 1, IF Len(values) > Len(cur) THEN Len(cur) ELSE Len(values))

\* The loop of _set_values: the shadow state after all bits.
ShiftAll(cur, values) == ShiftRange(cur, values, 1, Len(values))

\* The loop of _set_values, iterations lo..hi: the RPi.GPIO calls, per bit the
\* write of the data line (if any) and then the shift clock pulse.
RECURSIVE TraceRange(_, _, _, _, _)
TraceRange(ds, sh, values, lo, hi) ==
  IF lo > hi THEN <<>>
  ELSE IF lo = hi THEN DataWrite(ds, values[lo]) \o Tick(sh)
  ELSE TraceRange(ds, sh, values, lo, (lo + hi) \div 2)
       \o TraceRange(ds, sh, values, (lo + hi) \div 2 + 1, hi)

\* The loop of _set_values: the RPi.GPIO calls of all bits.
ShiftTrace(ds, sh, values) == TraceRange(ds, sh, values, 1, Len(values))

\* Variant of SetValuesTrace: no latch pulse when there is no bit to shift.
SetValuesTraceSkipEmpty(ds, sh, st, values) ==
  IF values = <<>> THEN <<>> ELSE ShiftTrace(ds, sh, values) \o Output(st)

\* _set_values: the RPi.GPIO calls of one transaction, the latch pulse last.
SetValuesTrace(ds, sh, st, values) == ShiftTrace(ds, sh, values) \o Output(st)

\* Variant of SeenInIteration: the shadow state is advanced after the pin
\* writes of the iteration.
SeenInIterationLate(cur, ds, bit) ==
  [k \in 1..(Len(DataWrite(ds, bit)) + 2) |-> cur]

\* One iteration of the loop of _set_values: self.current as each RPi.GPIO
\* call of the iteration finds it. The append and the del come first (lines
\* 47-48), the data line write and the shift clock pulse after them.
SeenInIteration(cur, ds, bit) ==
  [k \in 1..(Len(DataWrite(ds, bit)) + 2) |-> Advance(cur, bit)]

\* The loop of _set_values, iterations lo..hi: the shadow state after them
\* (cur) and the shadow state at each RPi.GPIO call made in them (seen).
RECURSIVE SeenRange(_, _, _, _, _)
SeenRange(cur, ds, values, lo, hi) ==
  IF lo > hi THEN [cur |-> cur, seen |-> <<>>]
  ELSE IF lo = hi
    THEN [cur |-> Advance(cur, values[lo]), seen |-> SeenInIteration(cur, ds, values[lo])]
  ELSE CHOOSE r \in UNION
         { { [cur |-> second.cur, seen |-> first.seen \o second.seen] :
               second \in { SeenRange(first.cur, ds, values, (lo + hi) \div 2 + 1, hi) } } :
             first \in { SeenRange(cur, ds, values, lo, (lo + hi) \div 2) } } : TRUE

\* _set_values: the shadow state at each RPi.GPIO call of one transaction; the
\* two writes of the latch pulse find it as the loop left it.
SetValuesSeen(cur, ds, values) ==
  LET loop == SeenRange(cur, ds, values, 1, Len(values))
  IN loop.seen \o << loop.cur, loop.cur >>

\* RPi.GPIO after a sequence of calls: setup adds the pin to the configured
\* pins, output replaces the level last written to the pin.
GpioAfter(g, t) ==
  LET written == { t[i].pin : i \in { k \in 1..Len(t) : t[k].fn = "output" } }
      LastWrite(p) == CHOOSE i \in 1..Len(t) :
                        /\ t[i].fn = "output" /\ t[i].pin = p
                        /\ \A k \in (i + 1)..Len(t) : ~(t[k].fn = "output" /\ t[k].pin = p)
  IN [configured |-> g.configured
                       \cup { t[i].pin : i \in { k \in 1..Len(t) : t[k].fn = "setup" } },
      level |-> [p \in (DOMAIN g.level) \cup written |->
                   IF p \in written THEN t[LastWrite(p)].arg ELSE g.level[p]]]

\* --------------------------------------------------- the 74HC595 chain
\* The level a pin write drives, as the bit the chip samples.
LevelBit(level) == IF level = HIGH THEN 1 ELSE 0

\* The chain's response to one RPi.GPIO call: a write of the pin wired to DS
\* sets the data line, a rising edge on the pin wired to SH_CP shifts the
\* data line's level in, a rising edge on the pin wired to ST_CP copies the
\* shift register to the outputs.
ChipStep(c, e) ==
  IF e.fn # "output" THEN c
  ELSE
    LET b == LevelBit(e.arg)
        c1 == IF e.pin = c.wired.ds THEN [c EXCEPT !.ds = b] ELSE c
        c2 == IF e.pin = c.wired.sh
              THEN [c1 EXCEPT !.sh = b,
                              !.cells = IF c1.sh = 0 /\ b = 1
                                        THEN Tail(Append(c1.cells, c1.ds))
                                        ELSE c1.cells]
              ELSE c1
        c3 == IF e.pin = c.wired.st
              THEN [c2 EXCEPT !.st = b,
                              !.q = IF c2.st = 0 /\ b = 1 THEN c2.cells ELSE c2.q]
              ELSE c2
    IN c3

\* The chain's response to the calls lo..hi of a sequence of RPi.GPIO calls,
\* in order (first half, then second half, as in ShiftRange).
RECURSIVE ChipRange(_, _, _, _)
ChipRange(c, t, lo, hi) ==
  IF lo > hi THEN c
  ELSE IF lo = hi THEN ChipStep(c, t[lo])
  ELSE CHOOSE r \in { ChipRange(first, t, (lo + hi) \div 2 + 1, hi) :
                        first \in { ChipRange(c, t, lo, (lo + hi) \div 2) } } : TRUE

\* The chain's response to a sequence of RPi.GPIO calls.
ChipRun(c, t) == ChipRange(c, t, 1, Len(t))

\* The contents a chain of d chips may hold at power-up.
PowerUp(d) == { [i \in 1..(8 * d) |-> b] : b \in {0, 1} }

\* The chain as wired and powered, before the driver has written any pin.
NewChip(ds, sh, st, cells) ==
  [wired |-> [ds |-> ds, sh |-> sh, st |-> st],
   ds |-> 0, sh |-> 0, st |-> 0, cells |-> cells, q |-> cells]

\* --------------------------------------------------------- inputs
\* Arguments tried for each parameter of the constructor.
DSArgs == {PyInt(11), PyInt(0), PyInt(41), PyFloat(55), PyStr("x")}
STArgs == {PyInt(13), PyInt(0), PyStr("x")}
SHArgs == {PyInt(15), PyInt(41), PyNone}
OEArgs == {PyInt(33), PyInt(41), PyStr("x")}
DepthArgs == {PyInt(1), PyInt(2), PyInt(0), PyInt(-1), PyStr("x")}
PwmFrqArgs == {PyInt(100)}

\* All sequences over S of length 0..n.
SeqsUpTo(S, n) == UNION { [1..k -> S] : k \in 0..n }

\* Lists tried as the argument of set_by_list: every list of 0s and 1s up to
\* MaxLen, the same lists written with booleans, a list mixing the two, the
\* same lists with one element (at each position) replaced by an invalid
\* one, lists as long as and longer than the capacity of one and of two
\* chips, and arguments that are no lists.
BitSeqs == SeqsUpTo({PyInt(0), PyInt(1)}, MaxLen)
AsBools(s) == [i \in 1..Len(s) |-> PyBool(s[i].v = 1)]
WithBad(s, i, bad) == [s EXCEPT ![i] = bad]
LongList(n) == [i \in 1..n |-> PyInt(IF i % 3 = 1 THEN 1 ELSE 0)]
ListArgs ==
  { PyList(s) : s \in BitSeqs }
  \cup { PyList(AsBools(s)) : s \in BitSeqs }
  \cup { PyList(<< PyInt(1), PyBool(FALSE) >>) }
  \cup UNION { { PyList(WithBad(s, i, PyInt(2))) : i \in 1..Len(s) } : s \in BitSeqs }
  \cup { PyList(<< PyStr("1") >>) }
  \cup { PyList(LongList(n)) : n \in {8, 9, 17} }
  \cup { PyInt(1), PyNone }

\* Arguments tried for set_by_int, set_by_bool, the pin setters,
\* set_daisy_chain and set_pwn_frequency.
IntArgs == {PyInt(0), PyInt(1), PyInt(5), PyInt(12), PyInt(999), PyInt(-1),
            PyFloat(15), PyStr("12"), PyBool(TRUE)}
BoolArgs == {PyBool(TRUE), PyBool(FALSE), PyInt(1), PyInt(0), PyNone}
PinArgs == {PyInt(7), PyInt(0), PyInt(41), PyStr("x")}
ChainArgs == {PyInt(1), PyInt(2), PyInt(3), PyInt(0), PyInt(-1), PyStr("x")}
DutyArgs == {PyInt(0), PyInt(50), PyInt(100), PyInt(150), PyInt(-1), PyFloat(505)}

NoArg == PyNone

\* ---------------------------------------------------------- Init
Init ==
  /\ constructed = FALSE
  /\ data = PyNone
  /\ parallel = PyNone
  /\ serial = PyNone
  /\ output_enable = PyNone
  /\ pwm_frequency = PyNone
  /\ daisy_chain = PyNone
  /\ current = <<>>
  /\ gpio = [configured |-> {}, level |-> [p \in {} |-> LOW]]
  /\ chip = NewChip(PyNone, PyNone, PyNone, <<>>)
  /\ lastCall = [op |-> "none", arg |-> NoArg, raised |-> "none"]
  /\ pre = Snapshot
  /\ trace = <<>>
  /\ seen = <<>>
  /\ calls = 0

\* --------------------------------------------------------- __init__
\* Lines 11-12: the range test, evaluated left to right over DS, ST, SH, OE,
\* each pin with `< 1` then `> 40`; `or` stops at the first true comparison,
\* and a comparison of a non-number with an int raises TypeError.
RECURSIVE PinRangeTest(_)
PinRangeTest(pins) ==
  IF pins = <<>> THEN "none"
  ELSE IF ~IsNumber(Head(pins)) THEN "TypeError"
  ELSE IF PyLess(Head(pins), 1) \/ PyGreater(Head(pins), 40) THEN "ValueError"
  ELSE PinRangeTest(Tail(pins))

\* Lines 9-17: the exception the constructor's validation raises, or "none".
InitRaises(DS, ST, SH, OE, dc) ==
  IF ~(IsInt(DS) \/ IsInt(ST) \/ IsInt(SH) \/ IsInt(OE)) THEN "ValueError"
  ELSE IF PinRangeTest(<<DS, ST, SH, OE>>) # "none"
       THEN PinRangeTest(<<DS, ST, SH, OE>>)
  ELSE IF ~IsInt(dc) THEN "ValueError"
  ELSE IF PyLess(dc, 1) THEN "ValueError"
  ELSE "none"

\* Variant of InitTrace: the board is set up but clear is not called.
InitTraceNoClear(DS, ST, SH, dc) == SetupBoard(DS, ST, SH)

\* The RPi.GPIO calls of a constructor whose validation passed:
\* _setup_board, then clear.
InitTrace(DS, ST, SH, dc) ==
  SetupBoard(DS, ST, SH) \o SetValuesTrace(DS, SH, ST, Repeat(EightZeros, dc.v))

Construct(DS, ST, SH, OE, dc, frq) ==
  /\ ~constructed
  /\ calls = 0
  /\ lastCall.op = "none"
  /\ pre' = Snapshot
  /\ calls' = calls
  /\ LET r == InitRaises(DS, ST, SH, OE, dc) IN
     /\ lastCall' = [op |-> "__init__", arg |-> PyList(<<DS, ST, SH, OE, dc, frq>>),
                     raised |-> r]
     /\ IF r # "none"
        THEN /\ trace' = <<>>
             /\ seen' = <<>>
             /\ UNCHANGED <<fields, gpio, chip>>
        ELSE /\ constructed' = TRUE
             /\ data' = DS
             /\ parallel' = ST
             /\ serial' = SH
             /\ output_enable' = OE
             /\ pwm_frequency' = frq
             /\ daisy_chain' = dc
             /\ current' = ShiftAll(Repeat(EightZeros, dc.v), Repeat(EightZeros, dc.v))
             /\ trace' = InitTrace(DS, ST, SH, dc)
             /\ seen' = [k \in 1..6 |-> Repeat(EightZeros, dc.v)]
                        \o SetValuesSeen(Repeat(EightZeros, dc.v), DS, Repeat(EightZeros, dc.v))
             /\ gpio' = GpioAfter(gpio, trace')
             /\ \E cells \in PowerUp(dc.v) :
                  chip' = ChipRun(NewChip(DS, SH, ST, cells), trace')

\* ------------------------------------------------- shift transactions
\* A public call that passed validation and runs _set_values(values).
Transaction(op, arg, values) ==
  /\ lastCall' = [op |-> op, arg |-> arg, raised |-> "none"]
  /\ current' = ShiftAll(current, values)
  /\ trace' = SetValuesTrace(data, serial, parallel, values)
  /\ seen' = SetValuesSeen(current, data, values)
  /\ gpio' = GpioAfter(gpio, trace')
  /\ chip' = ChipRun(chip, trace')
  /\ UNCHANGED <<constructed, data, parallel, serial, output_enable,
                 pwm_frequency, daisy_chain>>

\* A public call that raised before changing anything.
Rejected(op, arg, exc) ==
  /\ lastCall' = [op |-> op, arg |-> arg, raised |-> exc]
  /\ trace' = <<>>
  /\ seen' = <<>>
  /\ UNCHANGED <<fields, gpio, chip>>

\* What every public call on a constructed driver does to the history.
Call ==
  /\ constructed
  /\ calls < MaxCalls
  /\ calls' = calls + 1
  /\ pre' = Snapshot

\* Variant of ListValid: only the first element is validated.
ListValidFirstOnly(s) == s = <<>> \/ PyEq(s[1], 1) \/ PyEq(s[1], 0)

\* set_by_list, lines 145-151: the first element that is neither == True nor
\* == False raises; otherwise every element is replaced by 1 or 0.
ListValid(s) == \A i \in 1..Len(s) : PyEq(s[i], 1) \/ PyEq(s[i], 0)
Normalised(s) == [i \in 1..Len(s) |-> IF PyEq(s[i], 1) THEN PyInt(1) ELSE PyInt(0)]

set_by_list(values) ==
  /\ Call
  /\ IF ~IsList(values) THEN Rejected("set_by_list", values, "ValueError")
     ELSE IF ~ListValid(values.v) THEN Rejected("set_by_list", values, "ValueError")
     ELSE Transaction("set_by_list", values, Normalised(values.v))

\* bin(n)[2:] as a list: the binary digits of n >= 0, most significant first,
\* each a one-character string.
RECURSIVE BinDigits(_)
BinDigits(n) ==
  IF n < 2 THEN << PyStr(IF n = 1 THEN "1" ELSE "0") >>
  ELSE Append(BinDigits(n \div 2), PyStr(IF n % 2 = 1 THEN "1" ELSE "0"))

set_by_int(value) ==
  /\ Call
  /\ IF ~IsInt(value) THEN Rejected("set_by_int", value, "ValueError")
     ELSE IF PyLess(value, 0) THEN Rejected("set_by_int", value, "ValueError")
     ELSE Transaction("set_by_int", value, BinDigits(value.v))

set_by_bool(value) ==
  /\ Call
  /\ IF ~IsBool(value) THEN Rejected("set_by_bool", value, "ValueError")
     ELSE IF PyEq(value, 1) THEN Transaction("set_by_bool", value, << PyInt(1) >>)
     ELSE Transaction("set_by_bool", value, << PyInt(0) >>)

\* clear: _set_values([0]*8 * self.daisy_chain).
clear ==
  /\ Call
  /\ Transaction("clear", NoArg, Repeat(EightZeros, daisy_chain.v))

\* ------------------------------------------------------ configuration
\* The names bound where the body of a pin setter runs: its parameters and
\* the module's globals. DS, ST, SH and OE are parameters of __init__ only.
SetterScope == {"self", "pin", "gpio", "pi74HC595"}

\* A pin setter: validates pin, then assigns the value of `name` to `field`.
\* Evaluating a name that is not bound raises NameError before the store.
SetRole(op, pin, field, name) ==
  IF ~IsInt(pin) THEN Rejected(op, pin, "ValueError")
  ELSE IF PyLess(pin, 1) \/ PyGreater(pin, 40) THEN Rejected(op, pin, "ValueError")
  ELSE IF name \notin SetterScope THEN Rejected(op, pin, "NameError")
  ELSE /\ lastCall' = [op |-> op, arg |-> pin, raised |-> "none"]
       /\ trace' = <<>>
       /\ seen' = <<>>
       /\ data' = IF field = "data" THEN pin ELSE data
       /\ parallel' = IF field = "parallel" THEN pin ELSE parallel
       /\ serial' = IF field = "serial" THEN pin ELSE serial
       /\ output_enable' = IF field = "output_enable" THEN pin ELSE output_enable
       /\ UNCHANGED <<constructed, pwm_frequency, daisy_chain, current, gpio, chip>>

\* set_ds: self.data = DS
set_ds(pin) == Call /\ SetRole("set_ds", pin, "data", "DS")
\* set_sh: self.parallel = DS
set_sh(pin) == Call /\ SetRole("set_sh", pin, "parallel", "DS")
\* set_st: self.serial = ST
set_st(pin) == Call /\ SetRole("set_st", pin, "serial", "ST")
\* set_pwm_pin: self.output_enable = OE
set_pwm_pin(pin) == Call /\ SetRole("set_pwm_pin", pin, "output_enable", "OE")

\* Variant of set_daisy_chain: zero is accepted.
set_daisy_chain_AcceptsZero(num) ==
  /\ Call
  /\ IF ~IsInt(num) THEN Rejected("set_daisy_chain", num, "ValueError")
     ELSE IF PyLess(num, 0) THEN Rejected("set_daisy_chain", num, "ValueError")
     ELSE /\ lastCall' = [op |-> "set_daisy_chain", arg |-> num, raised |-> "none"]
          /\ trace' = <<>>
          /\ seen' = <<>>
          /\ daisy_chain' = num
          /\ UNCHANGED <<constructed, data, parallel, serial, output_enable,
                         pwm_frequency, current, gpio, chip>>

\* Variant of set_daisy_chain: the shadow state is re-created for the new depth.
set_daisy_chain_Resizes(num) ==
  /\ Call
  /\ IF ~IsInt(num) THEN Rejected("set_daisy_chain", num, "ValueError")
     ELSE IF PyLess(num, 1) THEN Rejected("set_daisy_chain", num, "ValueError")
     ELSE /\ lastCall' = [op |-> "set_daisy_chain", arg |-> num, raised |-> "none"]
          /\ trace' = <<>>
          /\ seen' = <<>>
          /\ daisy_chain' = num
          /\ current' = Repeat(EightZeros, num.v)
          /\ UNCHANGED <<constructed, data, parallel, serial, output_enable,
                         pwm_frequency, gpio, chip>>

set_daisy_chain(num) ==
  /\ Call
  /\ IF ~IsInt(num) THEN Rejected("set_daisy_chain", num, "ValueError")
     ELSE IF PyLess(num, 1) THEN Rejected("set_daisy_chain", num, "ValueError")
     ELSE /\ lastCall' = [op |-> "set_daisy_chain", arg |-> num, raised |-> "none"]
          /\ trace' = <<>>
          /\ seen' = <<>>
          /\ daisy_chain' = num
          /\ UNCHANGED <<constructed, data, parallel, serial, output_enable,
                         pwm_frequency, current, gpio, chip>>

\* set_pwn_frequency, lines 225-226: gpio.PWM(self.output_enable, value), then
\* start(0) on the object it returns.
PwmTrace(oe, value) ==
  << GpioCall("PWM", oe, value), GpioCall("start", oe, PyInt(0)) >>

\* Variant of set_pwn_frequency: no upper limit on the value.
set_pwn_frequency_NoUpperLimit(value) ==
  /\ Call
  /\ IF ~IsInt(value) THEN Rejected("set_pwn_frequency", value, "ValueError")
     ELSE IF PyLess(value, 0) THEN Rejected("set_pwn_frequency", value, "ValueError")
     ELSE /\ lastCall' = [op |-> "set_pwn_frequency", arg |-> value, raised |-> "none"]
          /\ trace' = PwmTrace(output_enable, value)
          /\ seen' = << current, current >>
          /\ gpio' = GpioAfter(gpio, trace')
          /\ chip' = ChipRun(chip, trace')
          /\ UNCHANGED fields

set_pwn_frequency(value) ==
  /\ Call
  /\ IF ~IsInt(value) THEN Rejected("set_pwn_frequency", value, "ValueError")
     ELSE IF PyLess(value, 0) THEN Rejected("set_pwn_frequency", value, "ValueError")
     ELSE IF PyGreater(value, 100) THEN Rejected("set_pwn_frequency", value, "ValueError")
     ELSE /\ lastCall' = [op |-> "set_pwn_frequency", arg |-> value, raised |-> "none"]
          /\ trace' = PwmTrace(output_enable, value)
          /\ seen' = << current, current >>
          /\ gpio' = GpioAfter(gpio, trace')
          /\ chip' = ChipRun(chip, trace')
          /\ UNCHANGED fields

\* ------------------------------------------------------------ Next
Next ==
  \/ \E DS \in DSArgs, ST \in STArgs, SH \in SHArgs, OE \in OEArgs,
        dc \in DepthArgs, frq \in PwmFrqArgs : Construct(DS, ST, SH, OE, dc, frq)
  \/ \E values \in ListArgs : set_by_list(values)
  \/ \E value \in IntArgs : set_by_int(value)
  \/ \E value \in BoolArgs : set_by_bool(value)
  \/ clear
  \/ \E pin \in PinArgs : set_ds(pin)
  \/ \E pin \in PinArgs : set_sh(pin)
  \/ \E pin \in PinArgs : set_st(pin)
  \/ \E pin \in PinArgs : set_pwm_pin(pin)
  \/ \E num \in ChainArgs : set_daisy_chain(num)
  \/ \E value \in DutyArgs : set_pwn_frequency(value)

Spec == Init /\ [][Next]_vars

\* ================================================================ claims
\* The last call was op and it returned without raising.
Returned(op) == lastCall.op = op /\ lastCall.raised = "none"

\* The four values a bit list may hold.
BitValues == {PyInt(0), PyInt(1), PyBool(TRUE), PyBool(FALSE)}
IsBitList(x) == x.ty = "list" /\ \A i \in 1..Len(x.v) : x.v[i] \in BitValues

\* The shadow state holds the bits B (a sequence of the integers 0 and 1) in
\* its last Len(B) places and, before them, what the state before the call
\* held after its first Len(B) places.
ShiftedIn(B) ==
  LET L == Len(B)
      C == Len(pre.current)
  IN /\ Len(get_values) = C
     /\ \A i \in 1..L : get_values[C - L + i] = PyInt(B[i])
     /\ \A i \in 1..(C - L) : get_values[i] = pre.current[L + i]

\* C1: after set_by_list(B) with B a valid bit list no longer than the shadow
\* state, the call has returned and get_values() ends with B as 0/1, preceded
\* by the tail of the state before the call; the same for set_by_bool(v) with
\* B = [1] for True and [0] for False.
C1_ShiftWindow ==
  /\ (lastCall.op = "set_by_list" /\ IsBitList(lastCall.arg)
        /\ Len(lastCall.arg.v) <= Len(pre.current))
       => /\ lastCall.raised = "none"
          /\ ShiftedIn([i \in 1..Len(lastCall.arg.v) |-> lastCall.arg.v[i].v])
  /\ (lastCall.op = "set_by_bool" /\ lastCall.arg.ty = "bool")
       => /\ lastCall.raised = "none"
          /\ ShiftedIn(<< lastCall.arg.v >>)

\* C1 witness: a two-element list holding a boolean was shifted into a shadow
\* state that was not all zeros.
C1_Witness ==
  /\ Returned("set_by_list")
  /\ Len(lastCall.arg.v) = 2
  /\ PyBool(TRUE) \in {lastCall.arg.v[i] : i \in 1..2}
  /\ \E i \in 1..Len(pre.current) : pre.current[i] # PyInt(0)

\* C2: after a call of clear(), get_values() is all zeros and its length is
\* 8 times the driver's current chain depth.
C2_ClearAllZeros ==
  Returned("clear")
    => get_values = [i \in 1..(8 * daisy_chain.v) |-> PyInt(0)]

\* The number of binary digits of n >= 0 (1 for n = 0) and the digits
\* themselves, most significant first.
BitLength(n) == IF n = 0 THEN 1 ELSE CHOOSE L \in 1..16 : 2^(L - 1) <= n /\ n < 2^L
IntBits(n) == [i \in 1..BitLength(n) |-> (n \div 2^(BitLength(n) - i)) % 2]

\* C3: after set_by_int(n) with n >= 0 of bit length L at most the capacity,
\* the last L elements of get_values() are the binary digits of n, most
\* significant first, as the integers 0 and 1.
C3_IntBits ==
  (lastCall.op = "set_by_int" /\ IsInt(lastCall.arg) /\ lastCall.arg.v >= 0
     /\ BitLength(lastCall.arg.v) <= Len(pre.current))
    => /\ lastCall.raised = "none"
       /\ \A i \in 1..BitLength(lastCall.arg.v) :
            get_values[Len(get_values) - BitLength(lastCall.arg.v) + i]
              = PyInt(IntBits(lastCall.arg.v)[i])

\* The bit a shadow element stands for, whether held as the integer or as
\* the digit character.
DenotedBit(x) == IF x \in {PyInt(1), PyStr("1")} THEN 1 ELSE 0

\* C4: after construction and after every completed call, the shadow state
\* equals the contents of the physical shift register, cell for cell.
C4_ShadowMirrorsChip ==
  constructed
    => /\ Len(get_values) = Len(chip.cells)
       /\ \A i \in 1..Len(chip.cells) : DenotedBit(get_values[i]) = chip.cells[i]

\* The pin writes of a transaction of the bits B (integers 0 and 1): per bit
\* the data line, then the shift clock high and low; last the latch clock
\* high and low.
ProtocolTrace(B) ==
  [k \in 1..(3 * Len(B) + 2) |->
     IF k = 3 * Len(B) + 1 THEN GpioCall("output", pre.parallel, HIGH)
     ELSE IF k = 3 * Len(B) + 2 THEN GpioCall("output", pre.parallel, LOW)
     ELSE IF k % 3 = 1
          THEN GpioCall("output", pre.data, IF B[(k + 2) \div 3] = 1 THEN HIGH ELSE LOW)
     ELSE IF k % 3 = 2 THEN GpioCall("output", pre.serial, HIGH)
     ELSE GpioCall("output", pre.serial, LOW)]

\* The bits of the transaction the last call stands for.
TransactionBits ==
  IF lastCall.op = "set_by_list"
    THEN [i \in 1..Len(lastCall.arg.v) |-> IF PyEq(lastCall.arg.v[i], 1) THEN 1 ELSE 0]
  ELSE IF lastCall.op = "set_by_int" THEN IntBits(lastCall.arg.v)
  ELSE IF lastCall.op = "set_by_bool" THEN << lastCall.arg.v >>
  ELSE [i \in 1..(8 * pre.daisy_chain.v) |-> 0]

\* C5: the pin writes of every shift transaction (set_by_list, set_by_int,
\* set_by_bool, clear) are, per bit in order, the data line written to the
\* bit's level and one shift clock pulse, and then exactly one latch pulse.
C5_ProtocolTrace ==
  (lastCall.op \in {"set_by_list", "set_by_int", "set_by_bool", "clear"}
     /\ lastCall.raised = "none")
    => trace = ProtocolTrace(TransactionBits)

\* An argument the call must reject: for set_by_list no list or a list with an
\* element that is no bit value, for set_by_int no integer or a negative one
\* (a bool is an integer), for set_by_bool no boolean.
InvalidArgument ==
  \/ lastCall.op = "set_by_list" /\ ~IsBitList(lastCall.arg)
  \/ lastCall.op = "set_by_int" /\ (~IsInt(lastCall.arg) \/ lastCall.arg.v < 0)
  \/ lastCall.op = "set_by_bool" /\ lastCall.arg.ty # "bool"

\* C6: a call of set_by_list, set_by_int or set_by_bool with an invalid
\* argument raises ValueError, writes no pin and leaves the shadow state as
\* it was before the call.
C6_RejectedNoEffect ==
  InvalidArgument
    => /\ lastCall.raised = "ValueError"
       /\ trace = <<>>
       /\ get_values = pre.current

\* C6 witness: a list whose second element is invalid was rejected by a
\* driver whose shadow state was not all zeros.
C6_Witness ==
  /\ lastCall.op = "set_by_list"
  /\ lastCall.raised = "ValueError"
  /\ lastCall.arg.ty = "list"
  /\ Len(lastCall.arg.v) = 2
  /\ lastCall.arg.v[1] \in BitValues
  /\ lastCall.arg.v[2] \notin BitValues
  /\ \E i \in 1..Len(pre.current) : pre.current[i] # PyInt(0)

\* A valid pin: an integer in 1..40.
ValidPin(p) == p.ty = "int" /\ p.v >= 1 /\ p.v <= 40

\* C7: each pin setter called with a valid pin returns without error, sets
\* the field of its own role to the pin and leaves the other three roles,
\* the chain depth and the shadow state unchanged.
C7_SetterReplacesOwnField ==
  (lastCall.op \in {"set_ds", "set_sh", "set_st", "set_pwm_pin"} /\ ValidPin(lastCall.arg))
    => /\ lastCall.raised = "none"
       /\ data = IF lastCall.op = "set_ds" THEN lastCall.arg ELSE pre.data
       /\ serial = IF lastCall.op = "set_sh" THEN lastCall.arg ELSE pre.serial
       /\ parallel = IF lastCall.op = "set_st" THEN lastCall.arg ELSE pre.parallel
       /\ output_enable = IF lastCall.op = "set_pwm_pin" THEN lastCall.arg
                          ELSE pre.output_enable
       /\ daisy_chain = pre.daisy_chain
       /\ get_values = pre.current

\* C8: a constructor that returned made the six setup calls first (each of
\* the three lines configured as an output), then the transaction of 8*d zero
\* bits with its one latch pulse; the shadow state is 8*d zeros and so are the
\* physical shift register and the latched outputs, whatever the chain held
\* at power-up.
C8_ConstructedAllOff ==
  Returned("__init__")
    => LET d == lastCall.arg.v[5].v
           zeros == [i \in 1..(8 * d) |-> 0]
       IN /\ d >= 1
          /\ Len(trace) = 6 + 3 * 8 * d + 2
          /\ \A p \in {data, parallel, serial} :
               \E k \in 1..6 : trace[k] = GpioCall("setup", p, OUT)
          /\ \A k \in 1..6 : trace[k].fn = "setup" \/ trace[k].arg = LOW
          /\ [k \in 1..(3 * 8 * d + 2) |-> trace[6 + k]]
               = [k \in 1..(3 * 8 * d + 2) |->
                    IF k = 3 * 8 * d + 1 THEN GpioCall("output", parallel, HIGH)
                    ELSE IF k = 3 * 8 * d + 2 THEN GpioCall("output", parallel, LOW)
                    ELSE IF k % 3 = 1 THEN GpioCall("output", data, LOW)
                    ELSE IF k % 3 = 2 THEN GpioCall("output", serial, HIGH)
                    ELSE GpioCall("output", serial, LOW)]
          /\ get_values = [i \in 1..(8 * d) |-> PyInt(0)]
          /\ chip.cells = zeros
          /\ chip.q = zeros

\* C8 witness: a driver constructed with chain depth 2 holds 16 zeros.
C8_Witness ==
  /\ Returned("__init__")
  /\ daisy_chain = PyInt(2)
  /\ Len(get_values) = 16

\* C9: a constructor given a pin that is no integer in 1..40 (whatever the
\* other three are), or a chain depth that is no positive integer, raises
\* ValueError and sets up and writes no pin.
C9_ConstructorRejects ==
  (lastCall.op = "__init__"
     /\ \/ \E k \in 1..4 : ~ValidPin(lastCall.arg.v[k])
        \/ ~(lastCall.arg.v[5].ty = "int" /\ lastCall.arg.v[5].v >= 1))
    => /\ lastCall.raised = "ValueError"
       /\ trace = <<>>

\* C10: set_pwn_frequency with an integer percent in 0..100 starts PWM on the
\* output-enable pin at the configured PWM frequency with duty 0 and then
\* changes the duty cycle to the percent.
C10_PwmStartThenDuty ==
  (lastCall.op = "set_pwn_frequency" /\ lastCall.arg.ty = "int"
     /\ lastCall.arg.v >= 0 /\ lastCall.arg.v <= 100)
    => /\ lastCall.raised = "none"
       /\ trace = << GpioCall("PWM", pre.output_enable, pre.pwm_frequency),
                     GpioCall("start", pre.output_enable, PyInt(0)),
                     GpioCall("ChangeDutyCycle", pre.output_enable, lastCall.arg) >>

\* C11: set_pwn_frequency with a value outside 0..100 or with a non-integer
\* raises ValueError, writes no pin and starts no PWM.
C11_DutyRejected ==
  (lastCall.op = "set_pwn_frequency"
     /\ (~IsInt(lastCall.arg) \/ lastCall.arg.v < 0 \/ lastCall.arg.v > 100))
    => /\ lastCall.raised = "ValueError"
       /\ trace = <<>>

\* C11 witness: set_pwn_frequency(150) was rejected.
C11_Witness ==
  /\ lastCall.op = "set_pwn_frequency"
  /\ lastCall.arg = PyInt(150)
  /\ lastCall.raised = "ValueError"

\* C12: set_daisy_chain(n) with n = 0 or n negative raises ValueError and
\* leaves the chain depth, the pin roles and the shadow state as they were;
\* the stored chain depth is an integer >= 1 in every state of a driver.
C12_DepthPositive ==
  /\ (lastCall.op = "set_daisy_chain" /\ lastCall.arg.ty = "int" /\ lastCall.arg.v <= 0)
       => /\ lastCall.raised = "ValueError"
          /\ Snapshot = pre
  /\ constructed => (IsInt(daisy_chain) /\ daisy_chain.v >= 1)

\* C12 witness: set_daisy_chain(0) was rejected by a driver of depth 2.
C12_Witness ==
  /\ lastCall.op = "set_daisy_chain"
  /\ lastCall.arg = PyInt(0)
  /\ lastCall.raised = "ValueError"
  /\ daisy_chain = PyInt(2)

\* C13: set_by_list([]) makes exactly one latch clock pulse (high, then low),
\* writes neither the data line nor the shift clock, and leaves the shadow
\* state unchanged.
C13_EmptyListLatchesOnly ==
  (lastCall.op = "set_by_list" /\ lastCall.arg = PyList(<<>>))
    => /\ lastCall.raised = "none"
       /\ trace = << GpioCall("output", parallel, HIGH), GpioCall("output", parallel, LOW) >>
       /\ get_values = pre.current

\* C13 witness: the empty list was given to a driver whose shadow state was
\* not all zeros.
C13_Witness ==
  /\ Returned("set_by_list")
  /\ lastCall.arg = PyList(<<>>)
  /\ \E i \in 1..Len(pre.current) : pre.current[i] # PyInt(0)

\* C14: no public call, returned or rejected, changes the length of the shadow
\* state: after every call it is the length before the call, and so the
\* length the constructor left.
C14_LengthConstant ==
  (constructed /\ calls >= 1) => Len(get_values) = Len(pre.current)

\* C14 witness: a transaction longer than the shadow state was made after the
\* chain depth had been changed.
C14_Witness ==
  /\ Returned("set_by_list")
  /\ Len(lastCall.arg.v) > Len(pre.current)
  /\ 8 * daisy_chain.v # Len(get_values)

\* C15: every element of the shadow state is the integer 0 or the integer 1.
C15_ElementsAreBits ==
  \A i \in 1..Len(get_values) : get_values[i] \in {PyInt(0), PyInt(1)}

\* C16: set_by_list(B) with B a valid bit list of length L at least the
\* capacity C returns, makes L shift clock pulses, and leaves get_values()
\* equal to the last C elements of B, in order.
C16_LongListKeepsTail ==
  (lastCall.op = "set_by_list" /\ IsBitList(lastCall.arg)
     /\ Len(lastCall.arg.v) >= Len(pre.current))
    => LET B == lastCall.arg.v
           L == Len(B)
           C == Len(pre.current)
       IN /\ lastCall.raised = "none"
          /\ Cardinality({k \in 1..Len(trace) :
                            trace[k] = GpioCall("output", serial, HIGH)}) = L
          /\ Cardinality({k \in 1..Len(trace) :
                            trace[k] = GpioCall("output", serial, LOW)}) = L
          /\ get_values = [i \in 1..C |-> PyInt(B[L - C + i].v)]

\* C16 witness: a list longer than the shadow state, holding a 1 among the
\* bits that are pushed out and a 1 among those that stay, was shifted in.
C16_Witness ==
  /\ Returned("set_by_list")
  /\ Len(lastCall.arg.v) > Len(pre.current)
  /\ lastCall.arg.v[1] = PyInt(1)
  /\ \E i \in 1..Len(get_values) : get_values[i] = PyInt(1)

\* C17: set_daisy_chain, the four pin setters and set_pwn_frequency, whether
\* they return or raise, leave the shadow state unchanged and neither
\* configure nor write the level of any pin.
C17_ConfigurationKeepsShadow ==
  lastCall.op \in {"set_daisy_chain", "set_ds", "set_sh", "set_st", "set_pwm_pin",
                   "set_pwn_frequency"}
    => /\ get_values = pre.current
       /\ \A k \in 1..Len(trace) : trace[k].fn \notin {"setup", "output"}

\* C17 witness: set_daisy_chain returned, with another depth than before, on
\* a driver whose shadow state was not all zeros.
C17_Witness ==
  /\ Returned("set_daisy_chain")
  /\ daisy_chain # pre.daisy_chain
  /\ \E i \in 1..Len(get_values) : get_values[i] # PyInt(0)

\* The sequence the last call handed to _set_values, as the code holds it:
\* integers for set_by_list, set_by_bool and clear, the digit characters of
\* bin() for set_by_int.
TransactionValues ==
  IF lastCall.op = "set_by_list"
    THEN [i \in 1..Len(lastCall.arg.v) |-> PyInt(IF PyEq(lastCall.arg.v[i], 1) THEN 1 ELSE 0)]
  ELSE IF lastCall.op = "set_by_int"
    THEN [i \in 1..BitLength(lastCall.arg.v) |->
            PyStr(IF IntBits(lastCall.arg.v)[i] = 1 THEN "1" ELSE "0")]
  ELSE IF lastCall.op = "set_by_bool" THEN << PyInt(lastCall.arg.v) >>
  ELSE [i \in 1..(8 * pre.daisy_chain.v) |-> PyInt(0)]

\* The state before the call advanced by the first k elements of B.
AdvancedBy(B, k) ==
  [i \in 1..Len(pre.current) |->
     IF i + k <= Len(pre.current) THEN pre.current[i + k]
     ELSE B[i + k - Len(pre.current)]]

\* The number of shift clock rising edges among the first j calls of trace.
RisingEdges(j) ==
  Cardinality({i \in 1..j : trace[i] = GpioCall("output", pre.serial, HIGH)})

\* The number of bits the shadow state is to hold at the j-th call of trace:
\* the shift clock edges made so far, and the bit whose data line write this is.
BitsAt(j) ==
  RisingEdges(j)
    + (IF trace[j].fn = "output" /\ trace[j].pin = pre.data THEN 1 ELSE 0)

\* C18: in a transaction of the L values B on the state S, the shadow state at
\* every pin write is S advanced by the first k values of B, with k in 0..L
\* never decreasing; every k in 1..L is seen before the latch pulse; and at
\* each rising edge of the shift clock k is the number of rising edges made
\* so far, that one included.
C18_BitByBit ==
  (lastCall.op \in {"set_by_list", "set_by_int", "set_by_bool", "clear"}
     /\ lastCall.raised = "none")
    => LET B == TransactionValues
           L == Len(B)
           n == Len(trace)
       IN /\ Len(seen) = n
          /\ \A j \in 1..n : BitsAt(j) \in 0..L /\ seen[j] = AdvancedBy(B, BitsAt(j))
          /\ \A j \in 1..(n - 1) : BitsAt(j) <= BitsAt(j + 1)
          /\ \A k \in 1..L : \E j \in 1..(n - 2) : BitsAt(j) = k
          /\ \A j \in 1..n :
               trace[j] = GpioCall("output", pre.serial, HIGH)
                 => seen[j] = AdvancedBy(B, RisingEdges(j))

\* C18 witness: a transaction of two different bits on a shadow state that was
\* not all zeros: the state seen at the first shift clock edge is neither the
\* state before the call nor the state after it.
C18_Witness ==
  /\ Returned("set_by_list")
  /\ Len(lastCall.arg.v) = 2
  /\ \E j \in 1..Len(seen) : seen[j] # pre.current /\ seen[j] # get_values

\* C19: every write of a pin's level and every PWM start is preceded by the
\* configuration of that same pin as an output.
C19_ConfiguredBeforeDriven ==
  \A j \in 1..Len(trace) :
    trace[j].fn \in {"output", "PWM", "start"}
      => trace[j].pin \in pre.gpio.configured
                            \cup { trace[i].pin : i \in { k \in 1..(j - 1) : trace[k].fn = "setup" } }

\* The level last written to pin p once the first j calls of trace are made
\* (None when it was never written).
LevelAt(p, j) ==
  LET W == { i \in 1..j : trace[i].fn = "output" /\ trace[i].pin = p }
  IN IF W # {} THEN trace[CHOOSE i \in W : \A k \in W : k <= i].arg
     ELSE IF p \in DOMAIN pre.gpio.level THEN pre.gpio.level[p]
     ELSE PyNone

\* C20: whenever the constructor or a public call has returned or raised,
\* the level last written to the shift clock and to the latch clock is low;
\* and at no point of a call are both clocks high.
C20_ClocksIdleLow ==
  constructed
    => /\ gpio.level[serial] = LOW
       /\ gpio.level[parallel] = LOW
       /\ \A j \in 1..Len(trace) :
            ~(LevelAt(serial, j) = HIGH /\ LevelAt(parallel, j) = HIGH)

\* C20 witness: a transaction of two bits has returned; it drove the shift
\* clock and the latch clock high.
C20_Witness ==
  /\ Returned("set_by_list")
  /\ Len(lastCall.arg.v) = 2
  /\ \E j \in 1..Len(trace) : trace[j] = GpioCall("output", serial, HIGH)
  /\ \E j \in 1..Len(trace) : trace[j] = GpioCall("output", parallel, HIGH)
  /\ gpio.level[serial] = LOW
  /\ gpio.level[parallel] = LOW

====
